---- MODULE Spec2Model ----
(***************************************************************************)
(* Model of hgext3rd/statprofext.py: the statprofile context manager that  *)
(* wraps a block of work in statprof.start()/statprof.stop() and displays  *)
(* the collected profile.                                                  *)
(*                                                                         *)
(* A session is one call of statprofile(orig, ui, fp).  The function keeps *)
(* no state of its own between calls and takes no lock, so sessions run    *)
(* one after another, nested, overlapping or from several threads, in any  *)
(* interleaving of their steps.  The statprof module is a process-wide     *)
(* object shared by every session.                                         *)
(*                                                                         *)
(* Calls that leave the file can fail where the file itself provides for   *)
(* it or where the caller hands in the object: the import of statprof,     *)
(* statprof.start (the engine may reject the mechanism), the wrapped block *)
(* and the write of the report to fp.  ui.configint, ui.config, ui.warn,   *)
(* statprof.reset and statprof.stop are taken to return.                   *)
(***************************************************************************)
EXTENDS Integers, Sequences, FiniteSets, TLC

\* ---- bounds -------------------------------------------------------------
MaxNest == 2        \* number of statprofile calls (sessions) explored
FreqBound == 1      \* configured frequencies range over -FreqBound..FreqBound

\* ---- program constants --------------------------------------------------
DefaultFreq == 1000
DefaultMechanism == "thread"
DefaultFormat == "hotpath"
Hotpath == "DisplayFormats.Hotpath"
Json == "DisplayFormats.Json"

\* ---- input domains ------------------------------------------------------
Sessions == 1..MaxNest
\* a configuration value is <<>> when the key is absent, <<v>> when set
FreqSettings == {<<>>} \cup {<<f>> : f \in (-FreqBound)..FreqBound}
MechanismSettings == {<<>>, <<"signal">>, <<"bogus">>}
FormatSettings == {<<>>, <<"hotpath">>, <<"json">>, <<"xml">>}
\* what the wrapped block does at the yield: return, raise, or be interrupted
WorkErrors == {"E1"}
Cancellation == "KeyboardInterrupt"
WorkOutcomes == {"none"} \cup WorkErrors \cup {Cancellation}

VARIABLES
    ui,       \* the configuration source: [freq, mechanism, format]
    engine,   \* the statprof module: [avail, rate]; rate 0 = never reset
    sess,     \* per session: [pc, exc, raised]
    trace,    \* per session, the calls it issued so far, in order:
              \* [s, op, arg, ret, overlap]
    diag,     \* per session, its ui.warn output, in order: [s, text]
    sink      \* per session, the writes to its fp, in order: [s, format]

vars == <<ui, engine, sess, trace, diag, sink>>

\* ---- configuration lookups ---------------------------------------------
\* variant of configint: the default is dropped, an absent key reads as 0
configintNoDefault(setting, default) == IF setting = <<>> THEN 0 ELSE setting[1]

\* ui.configint(section, name, default)
configint(setting, default) == IF setting = <<>> THEN default ELSE setting[1]

\* ui.config(section, name, default)
config(setting, default) == IF setting = <<>> THEN default ELSE setting[1]

\* _("invalid sampling frequency '%s' - ignoring\n") % freq
FreqWarning(freq) ==
    "invalid sampling frequency '" \o ToString(freq) \o "' - ignoring\n"

\* _("unknown profiler output format: %s") % profformat
FormatWarning(profformat) ==
    "unknown profiler output format: " \o profformat

\* variant of displayformat: the else branch falls through to the wrong format
displayformatNoFallback(profformat) ==
    IF profformat = "hotpath" THEN Hotpath ELSE Json

\* the if/elif/else choosing displayformat
displayformat(profformat) ==
    IF profformat = "hotpath" THEN Hotpath
    ELSE IF profformat = "json" THEN Json
    ELSE Hotpath

\* one entry of the call record; ret is "ok" when the call returned, else
\* the exception it raised; overlap tells, for a stop call, whether another
\* session was at its yield, between its start and its stop, at that time
Call(s, op, arg, ret) ==
    [s |-> s, op |-> op, arg |-> arg, ret |-> ret,
     overlap |-> (op = "stop" /\ \E o \in Sessions \ {s} : sess[o].pc = "Running")]

\* ---- initial state ------------------------------------------------------
Init ==
    /\ ui \in [freq : FreqSettings,
               mechanism : MechanismSettings,
               format : FormatSettings]
    /\ engine \in [avail : BOOLEAN, rate : {0}]
    /\ sess = [s \in Sessions |-> [pc |-> "Idle", exc |-> "none", raised |-> "none"]]
    /\ trace = [s \in Sessions |-> <<>>]
    /\ diag = [s \in Sessions |-> <<>>]
    /\ sink = [s \in Sessions |-> <<>>]

\* ---- steps of statprofile ----------------------------------------------
\* variant of CanEnter: a session is refused while another one holds the
\* engine
CanEnterExclusive(s) ==
    /\ sess[s].pc = "Idle"
    /\ \A t \in Sessions \ {s} : sess[t].pc \in {"Idle", "Done"}

\* statprofile can be called at any time, whatever other sessions are
\* doing; session s stands for one call, so it is entered once.
CanEnter(s) == sess[s].pc = "Idle"

\* variant of Import: the ImportError is swallowed and the session goes on
ImportUnguarded(s) ==
    /\ CanEnter(s)
    /\ sess' = [sess EXCEPT ![s].pc = "Configuring"]
    /\ UNCHANGED <<ui, engine, trace, diag, sink>>

\* try: import statprof / except ImportError: raise error.Abort
Import(s) ==
    /\ CanEnter(s)
    /\ IF engine.avail
       THEN sess' = [sess EXCEPT ![s].pc = "Configuring"]
       ELSE sess' = [sess EXCEPT ![s].pc = "Done", ![s].raised = "Abort"]
    /\ UNCHANGED <<ui, engine, trace, diag, sink>>

\* variant of ResolveFreq: the warning is written to fp instead of ui.warn
ResolveFreqWarnToSink(s) ==
    /\ sess[s].pc = "Configuring"
    /\ LET freq == configint(ui.freq, DefaultFreq) IN
       IF freq > 0
       THEN /\ engine' = [engine EXCEPT !.rate = freq]
            /\ trace' = [trace EXCEPT ![s] = Append(@, Call(s, "reset", <<freq>>, "ok"))]
            /\ UNCHANGED sink
       ELSE /\ sink' = [sink EXCEPT ![s] = Append(@, [s |-> s, format |-> FreqWarning(freq)])]
            /\ UNCHANGED <<engine, trace>>
    /\ sess' = [sess EXCEPT ![s].pc = "Starting"]
    /\ UNCHANGED <<ui, diag>>

\* variant of ResolveFreq: an invalid frequency aborts the session
ResolveFreqStrict(s) ==
    /\ sess[s].pc = "Configuring"
    /\ LET freq == configint(ui.freq, DefaultFreq) IN
       IF freq > 0
       THEN /\ engine' = [engine EXCEPT !.rate = freq]
            /\ trace' = [trace EXCEPT ![s] = Append(@, Call(s, "reset", <<freq>>, "ok"))]
            /\ sess' = [sess EXCEPT ![s].pc = "Starting"]
       ELSE /\ sess' = [sess EXCEPT ![s].pc = "Done", ![s].raised = "Abort"]
            /\ UNCHANGED <<engine, trace>>
    /\ UNCHANGED <<ui, diag, sink>>

\* variant of ResolveFreq: the test is freq >= 0, so 0 reaches reset
ResolveFreqNonNegative(s) ==
    /\ sess[s].pc = "Configuring"
    /\ LET freq == configint(ui.freq, DefaultFreq) IN
       IF freq >= 0
       THEN /\ engine' = [engine EXCEPT !.rate = freq]
            /\ trace' = [trace EXCEPT ![s] = Append(@, Call(s, "reset", <<freq>>, "ok"))]
            /\ UNCHANGED diag
       ELSE /\ diag' = [diag EXCEPT ![s] = Append(@, [s |-> s, text |-> FreqWarning(freq)])]
            /\ UNCHANGED <<engine, trace>>
    /\ sess' = [sess EXCEPT ![s].pc = "Starting"]
    /\ UNCHANGED <<ui, sink>>

\* freq = ui.configint(...); reset(freq) if freq > 0, else ui.warn(...)
ResolveFreq(s) ==
    /\ sess[s].pc = "Configuring"
    /\ LET freq == configint(ui.freq, DefaultFreq) IN
       IF freq > 0
       THEN /\ engine' = [engine EXCEPT !.rate = freq]
            /\ trace' = [trace EXCEPT ![s] = Append(@, Call(s, "reset", <<freq>>, "ok"))]
            /\ UNCHANGED diag
       ELSE /\ diag' = [diag EXCEPT ![s] = Append(@, [s |-> s, text |-> FreqWarning(freq)])]
            /\ UNCHANGED <<engine, trace>>
    /\ sess' = [sess EXCEPT ![s].pc = "Starting"]
    /\ UNCHANGED <<ui, sink>>

\* variant of Start: a rejected start is caught, reported with ui.warn and
\* the session goes on unprofiled
StartSwallowed(s, accepted) ==
    /\ sess[s].pc = "Starting"
    /\ LET mechanism == config(ui.mechanism, DefaultMechanism) IN
       /\ trace' = [trace EXCEPT ![s] = Append(@, Call(s, "start", <<mechanism>>,
                                      IF accepted THEN "ok" ELSE "EngineError"))]
       /\ IF accepted
          THEN UNCHANGED diag
          ELSE diag' = [diag EXCEPT ![s] = Append(@, [s |-> s, text |-> "cannot start profiler: " \o mechanism])]
    /\ sess' = [sess EXCEPT ![s].pc = "Running"]
    /\ UNCHANGED <<ui, engine, sink>>

\* variant of Start: the start call sits inside the try block, so its
\* exception runs the finally clause
StartInsideTry(s, accepted) ==
    /\ sess[s].pc = "Starting"
    /\ LET mechanism == config(ui.mechanism, DefaultMechanism) IN
       trace' = [trace EXCEPT ![s] = Append(@, Call(s, "start", <<mechanism>>,
                                   IF accepted THEN "ok" ELSE "EngineError"))]
    /\ IF accepted
       THEN sess' = [sess EXCEPT ![s].pc = "Running"]
       ELSE sess' = [sess EXCEPT ![s].pc = "Stopping", ![s].exc = "EngineError"]
    /\ UNCHANGED <<ui, engine, diag, sink>>

\* mechanism = ui.config(...); statprof.start(mechanism=mechanism)
\* The engine either accepts the start or raises.
Start(s, accepted) ==
    /\ sess[s].pc = "Starting"
    /\ LET mechanism == config(ui.mechanism, DefaultMechanism) IN
       trace' = [trace EXCEPT ![s] = Append(@, Call(s, "start", <<mechanism>>,
                                   IF accepted THEN "ok" ELSE "EngineError"))]
    /\ IF accepted
       THEN sess' = [sess EXCEPT ![s].pc = "Running"]
       ELSE sess' = [sess EXCEPT ![s].pc = "Done", ![s].raised = "EngineError"]
    /\ UNCHANGED <<ui, engine, diag, sink>>

\* try: yield -- the wrapped block runs to its end.  outcome is "none" for
\* a normal return, otherwise the exception thrown into the generator at
\* the yield.
Work(s, outcome) ==
    /\ sess[s].pc = "Running"
    /\ sess' = [sess EXCEPT ![s].pc = "Stopping", ![s].exc = outcome]
    /\ trace' = [trace EXCEPT ![s] = Append(@, Call(s, "work", <<>>, IF outcome = "none" THEN "ok" ELSE outcome))]
    /\ UNCHANGED <<ui, engine, diag, sink>>

\* variant of Stop: stop() placed after the try block instead of in a
\* finally clause, so an exception thrown in at the yield bypasses it
StopUnlessRaised(s) ==
    /\ sess[s].pc = "Stopping"
    /\ IF sess[s].exc = "none"
       THEN /\ sess' = [sess EXCEPT ![s].pc = "Reporting"]
            /\ trace' = [trace EXCEPT ![s] = Append(@, Call(s, "stop", <<>>, "ok"))]
       ELSE /\ sess' = [sess EXCEPT ![s].pc = "Done", ![s].raised = sess[s].exc]
            /\ UNCHANGED trace
    /\ UNCHANGED <<ui, engine, diag, sink>>

\* variant of Stop: the finally clause displays the report first and stops
\* the engine afterwards
StopAfterDisplay(s) ==
    /\ sess[s].pc = "Stopping"
    /\ LET shown == Call(s, "display", <<displayformat(config(ui.format, DefaultFormat))>>, "ok") IN
       trace' = [trace EXCEPT ![s] = @ \o <<shown, Call(s, "stop", <<>>, "ok")>>]
    /\ sink' = [sink EXCEPT ![s] = Append(@, [s |-> s, format |-> displayformat(config(ui.format, DefaultFormat))])]
    /\ sess' = [sess EXCEPT ![s].pc = "Done", ![s].raised = sess[s].exc]
    /\ UNCHANGED <<ui, engine, diag>>

\* finally: statprof.stop()
Stop(s) ==
    /\ sess[s].pc = "Stopping"
    /\ sess' = [sess EXCEPT ![s].pc = "Reporting"]
    /\ trace' = [trace EXCEPT ![s] = Append(@, Call(s, "stop", <<>>, "ok"))]
    /\ UNCHANGED <<ui, engine, diag, sink>>

\* finally, continued: profformat = ui.config(...) and the if/elif/else; an
\* unrecognized format is reported with ui.warn before display is called
ResolveFormat(s) ==
    /\ sess[s].pc = "Reporting"
    /\ LET profformat == config(ui.format, DefaultFormat) IN
       IF profformat \in {"hotpath", "json"}
       THEN UNCHANGED diag
       ELSE diag' = [diag EXCEPT ![s] = Append(@, [s |-> s, text |-> FormatWarning(profformat)])]
    /\ sess' = [sess EXCEPT ![s].pc = "Displaying"]
    /\ UNCHANGED <<ui, engine, trace, sink>>

\* variant of Display: the report is only displayed when the block returned
DisplayUnlessRaised(s, written) ==
    /\ sess[s].pc = "Displaying"
    /\ LET profformat == config(ui.format, DefaultFormat) IN
       IF sess[s].exc = "none"
       THEN /\ trace' = [trace EXCEPT ![s] = Append(@, Call(s, "display", <<displayformat(profformat)>>,
                                           IF written THEN "ok" ELSE "DisplayError"))]
            /\ IF written
               THEN /\ sink' = [sink EXCEPT ![s] = Append(@, [s |-> s, format |-> displayformat(profformat)])]
                    /\ sess' = [sess EXCEPT ![s].pc = "Done"]
               ELSE /\ UNCHANGED sink
                    /\ sess' = [sess EXCEPT ![s].pc = "Done", ![s].raised = "DisplayError"]
       ELSE /\ sess' = [sess EXCEPT ![s].pc = "Done", ![s].raised = sess[s].exc]
            /\ UNCHANGED <<trace, sink>>
    /\ UNCHANGED <<ui, engine, diag>>

\* variant of Display: a failed report write is retried once
DisplayRetried(s, written) ==
    /\ sess[s].pc = "Displaying"
    /\ LET profformat == config(ui.format, DefaultFormat)
           shown == {i \in DOMAIN trace[s] : trace[s][i].op = "display"} IN
       /\ trace' = [trace EXCEPT ![s] = Append(@, Call(s, "display", <<displayformat(profformat)>>,
                                      IF written THEN "ok" ELSE "DisplayError"))]
       /\ IF written
          THEN /\ sink' = [sink EXCEPT ![s] = Append(@, [s |-> s, format |-> displayformat(profformat)])]
               /\ sess' = [sess EXCEPT ![s].pc = "Done", ![s].raised = sess[s].exc]
          ELSE /\ UNCHANGED sink
               /\ IF shown = {}
                  THEN UNCHANGED sess
                  ELSE sess' = [sess EXCEPT ![s].pc = "Done", ![s].raised = "DisplayError"]
    /\ UNCHANGED <<ui, engine, diag>>

\* end of the finally block: statprof.display(fp, format=displayformat).
\* written is FALSE when writing the report to fp raises; an exception
\* raised inside a finally block replaces the one in flight.
Display(s, written) ==
    /\ sess[s].pc = "Displaying"
    /\ LET profformat == config(ui.format, DefaultFormat) IN
       /\ trace' = [trace EXCEPT ![s] = Append(@, Call(s, "display", <<displayformat(profformat)>>,
                                      IF written THEN "ok" ELSE "DisplayError"))]
       /\ IF written
          THEN /\ sink' = [sink EXCEPT ![s] = Append(@, [s |-> s, format |-> displayformat(profformat)])]
               /\ sess' = [sess EXCEPT ![s].pc = "Done", ![s].raised = sess[s].exc]
          ELSE /\ UNCHANGED sink
               /\ sess' = [sess EXCEPT ![s].pc = "Done", ![s].raised = "DisplayError"]
    /\ UNCHANGED <<ui, engine, diag>>

Next ==
    \/ \E s \in Sessions : Import(s)
    \/ \E s \in Sessions : ResolveFreq(s)
    \/ \E s \in Sessions : \E accepted \in BOOLEAN : Start(s, accepted)
    \/ \E s \in Sessions : \E outcome \in WorkOutcomes : Work(s, outcome)
    \/ \E s \in Sessions : Stop(s)
    \/ \E s \in Sessions : ResolveFormat(s)
    \/ \E s \in Sessions : \E written \in BOOLEAN : Display(s, written)

Spec == Init /\ [][Next]_vars

\* The interpreter keeps running the generator and the wrapped block
\* terminates: a session that can take a step eventually takes one.
LiveSpec == Spec /\ WF_vars(Next)

\* ---- vocabulary of the properties --------------------------------------
\* positions in the call record of the calls op issued by session s
Calls(s, op) == {i \in DOMAIN trace[s] : trace[s][i].op = op}
NumCalls(s, op) == Cardinality(Calls(s, op))
\* positions in the warning channel / the report sinks written by session s
Warnings(s) == DOMAIN diag[s]
SinkWrites(s) == DOMAIN sink[s]
Ended(s) == sess[s].pc = "Done"
Entered(s) == sess[s].pc # "Idle"
StartSucceeded(s) == \E i \in Calls(s, "start") : trace[s][i].ret = "ok"
StartFailed(s) == \E i \in Calls(s, "start") : trace[s][i].ret # "ok"

\* text contains sub / text begins with sub
Contains(text, sub) ==
    \E i \in 1..(Len(text) - Len(sub) + 1) : SubSeq(text, i, i + Len(sub) - 1) = sub
StartsWith(text, sub) ==
    Len(text) >= Len(sub) /\ SubSeq(text, 1, Len(sub)) = sub
FreqWarnings(s) ==
    {i \in Warnings(s) : StartsWith(diag[s][i].text, "invalid sampling frequency")}
FormatWarnings(s) ==
    {i \in Warnings(s) : StartsWith(diag[s][i].text, "unknown profiler output format")}
\* the session is past the frequency step / past the start call
FreqResolved(s) == sess[s].pc \notin {"Idle", "Configuring"} /\ sess[s].raised # "Abort"
\* the session is past the choice of the display format
FormatResolved(s) == sess[s].pc = "Displaying" \/ NumCalls(s, "display") = 1

TypeOK ==
    /\ engine.rate \in Nat
    /\ \A s \in Sessions :
          sess[s].pc \in {"Idle", "Configuring", "Starting", "Running",
                          "Stopping", "Reporting", "Displaying", "Done"}

\* ---- C1 ----------------------------------------------------------------
\* C1: at no time has a session invoked stop more than once or invoked it
\* without a successful start; and a session that has ended after its start
\* succeeded has invoked start exactly once and stop exactly once, whether
\* the wrapped block returned, raised or was interrupted.
C1_StopExactlyOnce ==
    \A s \in Sessions :
        /\ NumCalls(s, "start") <= 1
        /\ NumCalls(s, "stop") <= 1
        /\ NumCalls(s, "stop") = 1 => StartSucceeded(s)
        /\ (Ended(s) /\ StartSucceeded(s)) =>
               /\ NumCalls(s, "start") = 1
               /\ NumCalls(s, "stop") = 1

\* an interrupted session whose start had succeeded has ended
C1_Witness ==
    \E s \in Sessions :
        Ended(s) /\ StartSucceeded(s) /\ sess[s].exc = Cancellation

\* ---- C2 ----------------------------------------------------------------
\* C2: when the wrapped block raised E and the session has ended, stop and
\* display were both invoked and the caller observes E itself.
C2_WorkErrorReachesCaller ==
    \A s \in Sessions :
        (Ended(s) /\ sess[s].exc \in WorkErrors) =>
            /\ NumCalls(s, "stop") = 1
            /\ NumCalls(s, "display") = 1
            /\ sess[s].raised = sess[s].exc

\* ---- C3 ----------------------------------------------------------------
\* C3: when statprof cannot be imported, an entered session has ended with
\* Abort and has left no trace: no engine call, no run of the wrapped block,
\* no warning, no write to the report sink, no change of the sampling rate.
C3_UnavailableAborts ==
    \A s \in Sessions :
        (~engine.avail /\ Entered(s)) =>
            /\ Ended(s)
            /\ sess[s].raised = "Abort"
            /\ trace[s] = <<>>
            /\ Warnings(s) = {}
            /\ SinkWrites(s) = {}
            /\ engine.rate = 0

\* a session was entered while statprof was missing
C3_Witness == ~engine.avail /\ Entered(1)

\* ---- C4 ----------------------------------------------------------------
\* C4: display is never invoked twice by a session, and a session that has
\* ended after its start succeeded has invoked display exactly once, on its
\* own report sink, whatever the wrapped block did.
C4_ReportAlwaysProduced ==
    \A s \in Sessions :
        /\ NumCalls(s, "display") <= 1
        /\ Cardinality(SinkWrites(s)) <= NumCalls(s, "display")
        /\ (Ended(s) /\ StartSucceeded(s)) =>
               /\ NumCalls(s, "display") = 1
               /\ \A i \in Calls(s, "display") :
                      trace[s][i].ret = "ok" => Cardinality(SinkWrites(s)) = 1

\* a session whose block raised has ended with its report written
C4_Witness ==
    \E s \in Sessions :
        /\ Ended(s) /\ sess[s].exc \in WorkErrors
        /\ Cardinality(SinkWrites(s)) = 1

\* ---- C5 ----------------------------------------------------------------
\* C5: when the configured frequency is <= 0, a session never invokes reset
\* and the sampling rate of the engine stays untouched; once the session is
\* past the frequency step it has emitted exactly one frequency warning, the
\* only warning quoting the value, and it goes on to invoke start.
C5_InvalidFreqIgnored ==
    (ui.freq # <<>> /\ ui.freq[1] <= 0) =>
        \A s \in Sessions :
            /\ NumCalls(s, "reset") = 0
            /\ engine.rate = 0
            /\ ~FreqResolved(s) => FreqWarnings(s) = {}
            /\ FreqResolved(s) =>
                   /\ Cardinality(FreqWarnings(s)) = 1
                   /\ \A i \in FreqWarnings(s) :
                          Contains(diag[s][i].text, "'" \o ToString(ui.freq[1]) \o "'")
                   /\ sess[s].pc = "Starting" \/ NumCalls(s, "start") = 1

\* a session configured with a negative frequency has started the engine
C5_Witness ==
    /\ ui.freq = <<-1>>
    /\ \E s \in Sessions : StartSucceeded(s) /\ Cardinality(Warnings(s)) = 1

\* ---- C6 ----------------------------------------------------------------
\* C6: a format warning is emitted only after stop, when the format is
\* resolved; display receives Json for "json", Hotpath for "hotpath" or an
\* absent key, both without a format warning; for any other value it
\* receives Hotpath and exactly one format warning naming the value has been
\* emitted.  A written report has the format passed to display.
C6_FormatResolution ==
    \A s \in Sessions :
        /\ FormatWarnings(s) # {} => (FormatResolved(s) /\ NumCalls(s, "stop") = 1)
        /\ Cardinality(FormatWarnings(s)) <= 1
        /\ \A i \in Calls(s, "display") :
               /\ ui.format = <<"json">> =>
                      trace[s][i].arg = <<Json>> /\ FormatWarnings(s) = {}
               /\ ui.format \in {<<>>, <<"hotpath">>} =>
                      trace[s][i].arg = <<Hotpath>> /\ FormatWarnings(s) = {}
               /\ ui.format \notin {<<>>, <<"hotpath">>, <<"json">>} =>
                      /\ trace[s][i].arg = <<Hotpath>>
                      /\ Cardinality(FormatWarnings(s)) = 1
                      /\ \A w \in FormatWarnings(s) :
                             Contains(diag[s][w].text, ui.format[1])
               /\ \A w \in SinkWrites(s) : <<sink[s][w].format>> = trace[s][i].arg

\* a report was written under an unrecognized format setting
C6_Witness ==
    /\ ui.format = <<"xml">>
    /\ \E s \in Sessions : SinkWrites(s) # {}

\* ---- C7 ----------------------------------------------------------------
\* C7: when the configured frequency is f > 0, or absent (then f = 1000), a
\* session past the frequency step has invoked reset exactly once, with f,
\* before any start call, and has emitted no frequency warning; before that
\* step it has not invoked reset.
C7_ValidFreqReset ==
    \A f \in 1..FreqBound \cup {1000} :
        ((ui.freq = <<f>>) \/ (ui.freq = <<>> /\ f = 1000)) =>
            \A s \in Sessions :
                /\ FreqWarnings(s) = {}
                /\ ~FreqResolved(s) => NumCalls(s, "reset") = 0
                /\ FreqResolved(s) =>
                       /\ NumCalls(s, "reset") = 1
                       /\ engine.rate = f
                       /\ \A i \in Calls(s, "reset") :
                              /\ trace[s][i].arg = <<f>>
                              /\ \A j \in Calls(s, "start") : i < j

\* a session without a configured frequency has reset and started the engine
C7_Witness ==
    /\ ui.freq = <<>>
    /\ \E s \in Sessions : NumCalls(s, "reset") = 1 /\ StartSucceeded(s)

\* ---- C8 ----------------------------------------------------------------
\* C8: start receives the configured mechanism unchanged, "thread" when the
\* key is absent; when the engine rejects the start the session has ended
\* with the engine's error and has emitted no warning for it.
C8_MechanismPassedThrough ==
    \A s \in Sessions :
        \A i \in Calls(s, "start") :
            /\ ui.mechanism = <<>> => trace[s][i].arg = <<"thread">>
            /\ ui.mechanism # <<>> => trace[s][i].arg = ui.mechanism
            /\ trace[s][i].ret # "ok" =>
                   /\ Ended(s)
                   /\ sess[s].raised = "EngineError"
                   /\ Warnings(s) = FreqWarnings(s)

\* the engine rejected an unrecognized mechanism
C8_Witness ==
    /\ ui.mechanism = <<"bogus">>
    /\ \E s \in Sessions : StartFailed(s) /\ Ended(s)

\* ---- C9 ----------------------------------------------------------------
\* what session s has called so far, in order, the reset call left out
Progress(s) ==
    LET mine == SelectSeq(trace[s], LAMBDA c : c.op # "reset")
    IN  [i \in DOMAIN mine |-> mine[i].op]
Lifecycle == <<"start", "work", "stop", "display">>

C9_Order ==
    \A s \in Sessions :
        \* calls happen in the order start, work, stop, display
        /\ Len(Progress(s)) <= Len(Lifecycle)
        /\ Progress(s) = SubSeq(Lifecycle, 1, Len(Progress(s)))
        \* reset, when called, is the first call
        /\ \A i \in Calls(s, "reset") : i = 1
        \* the wrapped block runs only after start has returned
        /\ NumCalls(s, "work") = 1 => StartSucceeded(s)
        \* the position of the session agrees with what it has called
        /\ sess[s].pc \in {"Idle", "Configuring", "Starting"} => Progress(s) = <<>>
        /\ sess[s].pc = "Running" => Progress(s) = <<"start">>
        /\ sess[s].pc = "Stopping" => Progress(s) = <<"start", "work">>
        /\ sess[s].pc \in {"Reporting", "Displaying"} =>
               Progress(s) = <<"start", "work", "stop">>
        /\ sess[s].pc = "Done" =>
               \/ sess[s].raised = "Abort" /\ Progress(s) = <<>>
               \/ StartFailed(s) /\ Progress(s) = <<"start">>
               \/ Progress(s) = Lifecycle

C9_Edges ==
    \A s \in Sessions :
        sess'[s].pc # sess[s].pc =>
            \/ <<sess[s].pc, sess'[s].pc>> \in
                   { <<"Idle", "Configuring">>, <<"Configuring", "Starting">>,
                     <<"Starting", "Running">>, <<"Running", "Stopping">>,
                     <<"Stopping", "Reporting">>, <<"Reporting", "Displaying">>,
                     <<"Displaying", "Done">> }
            \* a session that fails to import or to start the engine ends at once
            \/ /\ <<sess[s].pc, sess'[s].pc>> \in
                      { <<"Idle", "Done">>, <<"Starting", "Done">> }
               /\ sess'[s].raised \in {"Abort", "EngineError"}

\* C9: a session moves Idle, Configuring, Running, Stopping, Reporting, Done
\* one state at a time (leaving early only when the import or the start
\* fails), and its calls are ordered: the wrapped block runs only after a
\* successful start, stop comes only after the block has ended, display
\* comes only after stop.
C9_LifecycleOrder == []C9_Order /\ [][C9_Edges]_vars

\* a session has displayed its report
C9_Witness == \E s \in Sessions : Progress(s) = Lifecycle /\ Ended(s)

\* ---- C10 ---------------------------------------------------------------
C10_AtMostOnce ==
    \A s \in Sessions :
        \A op \in {"reset", "start", "work", "stop", "display"} :
            NumCalls(s, op) <= 1

C10_DoneIsTerminal ==
    \A s \in Sessions :
        Ended(s) =>
            /\ sess'[s] = sess[s]
            /\ \A op \in {"reset", "start", "work", "stop", "display"} :
                   Calls(s, op)' = Calls(s, op)
            /\ Warnings(s)' = Warnings(s)
            /\ SinkWrites(s)' = SinkWrites(s)

\* C10: again and again every session entered so far has reached Done, so
\* each entered session eventually reaches it, whether or not the report
\* write succeeds; once Done, the session takes no further step and
\* issues no further call or write; and a session calls reset, start, the
\* wrapped block, stop and display at most once each.
C10_TerminatesOnce ==
    /\ []<>(\A s \in Sessions : Entered(s) => Ended(s))
    /\ [][C10_DoneIsTerminal]_vars
    /\ []C10_AtMostOnce

\* a session has ended on a failed report write
C10_Witness ==
    \E s \in Sessions :
        /\ Ended(s) /\ sess[s].raised = "DisplayError"
        /\ \E i \in Calls(s, "display") : trace[s][i].ret = "DisplayError"
\* ---- C11 ---------------------------------------------------------------
FreqInvalid == ui.freq # <<>> /\ ui.freq[1] <= 0
FormatInvalid == ui.format \notin {<<>>, <<"hotpath">>, <<"json">>}

C11_Channels ==
    \A s \in Sessions :
        \* every warning due so far is on the diagnostic channel
        /\ Warnings(s) = FreqWarnings(s) \cup FormatWarnings(s)
        /\ Cardinality(FreqWarnings(s)) =
               IF FreqInvalid /\ FreqResolved(s) THEN 1 ELSE 0
        /\ Cardinality(FormatWarnings(s)) =
               IF FormatInvalid /\ FormatResolved(s) THEN 1 ELSE 0
        \* the sink holds nothing but the report of the one display call
        /\ Cardinality(SinkWrites(s)) =
               Cardinality({i \in Calls(s, "display") : trace[s][i].ret = "ok"})
        /\ Cardinality(SinkWrites(s)) <= 1
        /\ \A w \in SinkWrites(s) : sink[s][w].format \in {Hotpath, Json}

C11_SinkStep ==
    sink' # sink =>
        \E s \in Sessions :
            /\ sess[s].pc = "Displaying"
            /\ Len(trace'[s]) = Len(trace[s]) + 1
            /\ trace'[s][Len(trace'[s])].op = "display"
            /\ sink' = [sink EXCEPT ![s] = Append(@, [s |-> s, format |-> trace'[s][Len(trace'[s])].arg[1]])]

\* C11: warnings and the report use disjoint channels: each warning of a
\* session (invalid frequency, unknown format) appears on the diagnostic
\* channel and never on the report sink; the sink of a session receives at
\* most one write, the report of its display call, and changes in no step
\* other than that call.
C11_DisjointChannels == []C11_Channels /\ [][C11_SinkStep]_vars

\* a session emitted both warnings and wrote its report
C11_Witness ==
    \E s \in Sessions :
        /\ Cardinality(Warnings(s)) = 2
        /\ Cardinality(SinkWrites(s)) = 1

\* ---- C12 ---------------------------------------------------------------
InvalidSettings ==
    (IF FreqInvalid THEN 1 ELSE 0) + (IF FormatInvalid THEN 1 ELSE 0)

\* C12: whatever the validity of the frequency and of the format, a session
\* of an available engine that has ended has attempted start, and when the
\* start was accepted it has run start, the wrapped block, stop and display
\* in that order, has emitted as many warnings as there are invalid settings
\* and raises only what the wrapped block or the report write raised; reset
\* is skipped exactly when the frequency is invalid.
C12_ValidationNonFatal ==
    \A s \in Sessions :
        /\ Cardinality(Warnings(s)) <= InvalidSettings
        /\ (Ended(s) /\ engine.avail) =>
               /\ NumCalls(s, "start") = 1
               /\ NumCalls(s, "reset") = IF FreqInvalid THEN 0 ELSE 1
        /\ (Ended(s) /\ StartSucceeded(s)) =>
               /\ Progress(s) = Lifecycle
               /\ Cardinality(Warnings(s)) = InvalidSettings
               /\ \A i \in Calls(s, "display") :
                      sess[s].raised =
                          IF trace[s][i].ret = "ok" THEN sess[s].exc ELSE "DisplayError"

\* a session with both settings invalid has ended without raising
C12_Witness ==
    /\ InvalidSettings = 2
    /\ \E s \in Sessions :
           /\ Ended(s) /\ sess[s].raised = "none"
           /\ Progress(s) = Lifecycle
           /\ Cardinality(Warnings(s)) = 2

\* ---- C13 ---------------------------------------------------------------
\* C13: a session whose start call failed has ended with the engine's error
\* without running the wrapped block, stop or display, without a format
\* warning or a write to the sink; the reset it made before that start
\* stays in effect.
C13_FailedStartSkipsCleanup ==
    \A s \in Sessions :
        StartFailed(s) =>
            /\ Ended(s)
            /\ sess[s].raised = "EngineError"
            /\ NumCalls(s, "work") = 0
            /\ NumCalls(s, "stop") = 0
            /\ NumCalls(s, "display") = 0
            /\ FormatWarnings(s) = {}
            /\ SinkWrites(s) = {}
            /\ ~FreqInvalid =>
                   /\ NumCalls(s, "reset") = 1
                   /\ \A i \in Calls(s, "reset") : engine.rate = trace[s][i].arg[1]

\* a start failed after a reset, under an unrecognized format setting
C13_Witness ==
    /\ FormatInvalid
    /\ \E s \in Sessions :
           StartFailed(s) /\ NumCalls(s, "reset") = 1 /\ engine.rate = 1000

\* ---- C14 ---------------------------------------------------------------
\* the next step of session s can be taken
CanStep(s) ==
    \/ sess[s].pc = "Idle" /\ ENABLED Import(s)
    \/ sess[s].pc = "Configuring" /\ ENABLED ResolveFreq(s)
    \/ sess[s].pc = "Starting" /\ ENABLED Start(s, TRUE)
    \/ sess[s].pc = "Running" /\ ENABLED Work(s, "none")
    \/ sess[s].pc = "Stopping" /\ ENABLED Stop(s)
    \/ sess[s].pc = "Reporting" /\ ENABLED ResolveFormat(s)
    \/ sess[s].pc = "Displaying" /\ ENABLED Display(s, TRUE)
    \/ sess[s].pc = "Done"

\* session s stopped the engine while another session was at its yield
StoppedDuringOther(s) == \E i \in Calls(s, "stop") : trace[s][i].overlap

C14_NeverBlocked ==
    \A s \in Sessions :
        \* whatever the other sessions are doing, the next step can be taken
        /\ CanStep(s)
        \* and the session is not refused
        /\ sess[s].raised = "Abort" => ~engine.avail
        \* a session whose block outlived the stop of another one still
        \* issues its own stop
        /\ StoppedDuringOther(s) =>
               \E o \in Sessions \ {s} :
                   /\ StartSucceeded(o)
                   /\ Ended(o) => NumCalls(o, "stop") = 1

C14_Steps ==
    \A s \in Sessions : \A o \in Sessions \ {s} :
        (trace'[s] # trace[s] /\ sess[o].pc = "Running") =>
            \* the call of s is issued while o holds the engine, and o is
            \* left at its yield with its stop still to come
            /\ Len(trace'[s]) > Len(trace[s])
            /\ sess'[o] = sess[o]
            /\ trace'[o] = trace[o]
            /\ NumCalls(o, "stop") = 0

\* C14: a session is never blocked or refused on account of another one:
\* whatever the other sessions are doing its next step can be taken, and it
\* ends with Abort only when statprof is missing; the calls it issues while
\* another session is at its yield (reset, start, stop, display) go to the
\* engine that session started, leave that session at its yield, and that
\* session issues its own stop afterwards.
C14_NoMutualExclusion == []C14_NeverBlocked /\ [][C14_Steps]_vars

\* session 2 stopped the engine while session 1 was at its yield, and
\* session 1 stopped it again afterwards
C14_Witness ==
    /\ StoppedDuringOther(2)
    /\ \A s \in Sessions \ {1, 2} : sess[s].pc = "Idle"
    /\ NumCalls(1, "stop") = 1
    /\ Ended(1) /\ Ended(2)
====
